---- MODULE Spec2Model ----
(***************************************************************************)
(* Vanity address search of dobruk/bitcoin:                                *)
(*   src/cmd/create_privatekey_from_prefixes.py  generate_vanity_list      *)
(*   src/cmd/create_privatekey_from_prefix.py    generate_vanity           *)
(* Strings are sequences of one-character strings, so that startswith,     *)
(* '1' + p and case sensitivity are computed and not assumed.              *)
(***************************************************************************)
EXTENDS Integers, Sequences, FiniteSets, TLC

VARIABLES multi, single

vars == <<multi, single>>

(***************************************************************************)
(* Bounds of the model.                                                    *)
(***************************************************************************)
MaxTries == 3
MaxPrefixes == 2
MaxInterval == 2

\* workers running the search loop side by side (section 5 of the design)
NWorkers == 2

(***************************************************************************)
(* The inputs the runs are drawn from.                                     *)
(***************************************************************************)
\* alphanumeric prefixes: a case pair ("A", "a") and an overlapping pair ("A", "AB")
PrefixPool == { <<"A">>, <<"a">>, <<"A", "B">> }

\* the random 32-byte hex strings secrets.token_hex can return (four of them)
HexPool == { "0a", "0b", "0c", "0d" }

PrefixLists == UNION { [1..n -> PrefixPool] : n \in 0..MaxPrefixes }

Intervals == 1..MaxInterval

\* readings of time.perf_counter() - start, in clock ticks: none elapsed, or two
ElapsedPool == { 0, 2 }

(***************************************************************************)
(* KeyProvider: bitsv.PrivateKey.from_hex(rand_hex), key.address and       *)
(* key.to_wif().  The address is a fixed one-way image of the key and      *)
(* always starts with the version character '1'.                           *)
(***************************************************************************)
from_hex(rand_hex) == <<"key", rand_hex>>

address(key) ==
    CASE key[2] = "0a" -> <<"1", "A">>
      [] key[2] = "0b" -> <<"1", "a">>
      [] key[2] = "0c" -> <<"1", "A", "B">>
      [] OTHER         -> <<"1", "B", "A">>

to_wif(key) == <<"wif", key[2]>>

(***************************************************************************)
(* str.startswith and '1' + p                                              *)
(***************************************************************************)
\* variant: the candidate must be longer than the target (a proper prefix)
startswith_proper(s, t) ==
    /\ Len(t) < Len(s)
    /\ \A j \in 1..Len(t) : s[j] = t[j]

\* variant: letters are compared without regard to case
startswith_nocase(s, t) ==
    LET lower(c) == IF c = "A" THEN "a" ELSE IF c = "B" THEN "b" ELSE c IN
    /\ Len(t) <= Len(s)
    /\ \A j \in 1..Len(t) : lower(s[j]) = lower(t[j])

startswith(s, t) ==
    /\ Len(t) <= Len(s)
    /\ \A j \in 1..Len(t) : s[j] = t[j]

Target(p) == <<"1">> \o p

\* targets = ['1' + p for p in prefixes]
Targets(ps) == [j \in 1..Len(ps) |-> Target(ps[j])]

\* found = {} ; found[prefix] = True ; len(found)
EmptyDict == [p \in {} |-> TRUE]

\* variant: the dict is replaced by one holding the new key alone
DictSet_replace(d, k) == [p \in {k} |-> TRUE]

DictSet(d, k) == [p \in (DOMAIN d) \cup {k} |-> TRUE]

DictLen(d) == Cardinality(DOMAIN d)

\* variant: the loop test written with <=
LoopCondition_le(fnd, ps) == Cardinality(DOMAIN fnd) <= Len(ps)

\* while len(found) < len(prefixes)
LoopCondition(fnd, ps) == DictLen(fnd) < Len(ps)

\* variant: the membership test on found is left out
ClaimCondition_any(prefix, target, fnd, a) ==
    /\ Len(target) <= Len(a)
    /\ \A j \in 1..Len(target) : a[j] = target[j]

\* variant: the candidate is compared for equality with the target
ClaimCondition_equal(prefix, target, fnd, a) ==
    /\ prefix \notin DOMAIN fnd
    /\ a = target

\* if prefix not in found and addr.startswith(target)
ClaimCondition(prefix, target, fnd, a) ==
    /\ prefix \notin DOMAIN fnd
    /\ startswith(a, target)

\* variant: the status line one attempt late
StatusDue_late(t, interval) == t % interval = 1 % interval

\* if tries % status_interval == 0, for a non-zero interval: Python's % takes the
\* sign of the divisor and is 0 exactly when |interval| divides tries
StatusDue(t, interval) == t % (IF interval < 0 THEN -interval ELSE interval) = 0

\* variant: the quotient taken the wrong way round
StatusRate_swapped(t, elapsed) == IF elapsed > 0 THEN elapsed \div t ELSE 0

\* rate = int(tries / elapsed) if elapsed > 0 else 0
StatusRate(t, elapsed) == IF elapsed > 0 THEN t \div elapsed ELSE 0

\* elapsed = time.perf_counter() - start: any reading not before the last one
Readings(clock) == { e \in ElapsedPool : e >= clock }

(***************************************************************************)
(* Output lines and files                                                  *)
(***************************************************************************)
Line(kind, prefix, a, t, elapsed, rate) ==
    [kind |-> kind, prefix |-> prefix, addr |-> a, tries |-> t,
     elapsed |-> elapsed, rate |-> rate]

\* variant: the address is missing from the file name
WalletFile_unnamed(a, key_wif) ==
    [filename |-> <<"walletbsv-">>, key_wif |-> key_wif,
     new_address |-> a, name |-> ""]

\* filename = OUTPUT_DIR / f"walletbsv-{address}.json" and the dumped data
WalletFile(a, key_wif) ==
    [filename |-> <<"walletbsv-">> \o a, key_wif |-> key_wif,
     new_address |-> a, name |-> ""]

\* open(filename, 'w') replaces the file of that name
WriteFile(files, f) == { g \in files : g.filename # f.filename } \cup {f}

(***************************************************************************)
(* Initial states: one of the two scripts has entered its search function.  *)
(***************************************************************************)
\* the locals of one worker running the loop body: its place, key, addr, index
WorkerIdle == [pc |-> "idle", key |-> <<>>, addr |-> <<>>, i |-> 0]

MultiIdle ==
    [pc |-> "idle", prefixes |-> <<>>, targets |-> <<>>, status_interval |-> 1,
     found |-> EmptyDict, tries |-> 0, key |-> <<>>, addr |-> <<>>, i |-> 0,
     clock |-> 0, generated |-> <<>>, out |-> <<>>, files |-> {},
     cancel |-> 0, argv |-> <<>>,
     workers |-> [w \in 1..NWorkers |-> WorkerIdle]]

\* lines 82-87 of generate_vanity_list
MultiStart(ps, interval) ==
    [MultiIdle EXCEPT !.pc = "while", !.prefixes = ps, !.targets = Targets(ps),
                      !.status_interval = interval]

SingleIdle ==
    [pc |-> "idle", prefix |-> <<>>, target |-> <<>>, status_interval |-> 1,
     tries |-> 0, key |-> <<>>, addr |-> <<>>, clock |-> 0,
     generated |-> <<>>, out |-> <<>>, cancel |-> 0, argv |-> <<>>]

\* lines 34-36 of generate_vanity
SingleStart(p, interval) ==
    [SingleIdle EXCEPT !.pc = "while", !.prefix = p, !.target = Target(p),
                       !.status_interval = interval]

Init ==
    \/ /\ multi \in { MultiStart(ps, n) : ps \in PrefixLists, n \in Intervals }
       /\ single = SingleIdle
    \/ /\ multi = MultiIdle
       /\ single \in { SingleStart(p, n) : p \in PrefixPool, n \in Intervals }

(***************************************************************************)
(* generate_vanity_list                                                    *)
(***************************************************************************)
\* variant: the counter is advanced twice for one key
Generate_twice ==
    /\ multi.pc = "while"
    /\ LoopCondition(multi.found, multi.prefixes)
    /\ multi.tries + 1 < MaxTries
    /\ \E rand_hex \in HexPool :
         LET key == from_hex(rand_hex) IN
         multi' = [multi EXCEPT !.tries = @ + 2, !.key = key,
                                !.addr = address(key),
                                !.generated = Append(@, address(key)),
                                !.i = 1, !.pc = "for"]
    /\ UNCHANGED single

\* lines 88-92: the loop test succeeds, one key is generated
Generate ==
    /\ multi.pc = "while"
    /\ LoopCondition(multi.found, multi.prefixes)
    /\ multi.tries < MaxTries
    /\ \E rand_hex \in HexPool :
         LET key == from_hex(rand_hex) IN
         multi' = [multi EXCEPT !.tries = @ + 1, !.key = key,
                                !.addr = address(key),
                                !.generated = Append(@, address(key)),
                                !.i = 1, !.pc = "for"]
    /\ UNCHANGED single

\* lines 94-95: one pass of the for loop whose condition is false
SkipPrefix ==
    /\ multi.pc = "for"
    /\ multi.i <= Len(multi.prefixes)
    /\ ~ClaimCondition(multi.prefixes[multi.i], multi.targets[multi.i],
                       multi.found, multi.addr)
    /\ multi' = [multi EXCEPT !.i = @ + 1]
    /\ UNCHANGED single

\* lines 94-100: one pass of the for loop that claims its prefix; save_to_file
\* (lines 67-77) either writes the file or raises from open()
ClaimPrefix ==
    /\ multi.pc = "for"
    /\ multi.i <= Len(multi.prefixes)
    /\ ClaimCondition(multi.prefixes[multi.i], multi.targets[multi.i],
                      multi.found, multi.addr)
    /\ \E elapsed \in Readings(multi.clock), written \in BOOLEAN :
         LET prefix == multi.prefixes[multi.i]
             claimed == [multi EXCEPT
                           !.clock = elapsed,
                           !.found = DictSet(@, prefix),
                           !.out = Append(@, Line("match", prefix, multi.addr,
                                                  multi.tries, elapsed, 0))]
         IN  multi' =
               IF written
               THEN [claimed EXCEPT
                       !.files = WriteFile(@, WalletFile(multi.addr, to_wif(multi.key))),
                       !.out = Append(@, Line("saved", <<>>, multi.addr,
                                              multi.tries, elapsed, 0)),
                       !.i = @ + 1]
               ELSE [claimed EXCEPT !.pc = "raised"]
    /\ UNCHANGED single

\* what lines 102-106 leave behind when the status line is due
StatusPrinted(r, elapsed) ==
    [r EXCEPT !.clock = elapsed,
              !.out = Append(@, Line("status", <<>>, <<>>, r.tries, elapsed,
                                     StatusRate(r.tries, elapsed))),
              !.pc = "while"]

\* line 94 exhausted, lines 102-106: the status check that ends an attempt
Status ==
    /\ multi.pc = "for"
    /\ multi.i > Len(multi.prefixes)
    /\ multi.status_interval # 0
    /\ \/ /\ ~StatusDue(multi.tries, multi.status_interval)
          /\ multi' = [multi EXCEPT !.pc = "while"]
       \/ /\ StatusDue(multi.tries, multi.status_interval)
          /\ \E elapsed \in Readings(multi.clock) :
               multi' = StatusPrinted(multi, elapsed)
    /\ UNCHANGED single

\* lines 102-106 when the reader of the status line wants the run cancelled:
\* print() returns nothing and the loop tests nothing, the wish is only noted
\* here (cancel = the attempt of the first such status line)
StatusAnswered ==
    /\ multi.pc = "for"
    /\ multi.i > Len(multi.prefixes)
    /\ StatusDue(multi.tries, multi.status_interval)
    /\ \E elapsed \in Readings(multi.clock) :
         multi' = [StatusPrinted(multi, elapsed) EXCEPT
                     !.cancel = IF @ = 0 THEN multi.tries ELSE @]
    /\ UNCHANGED single

\* lines 88, 108-109: the loop test fails, the completion line is printed
Finish ==
    /\ multi.pc = "while"
    /\ ~LoopCondition(multi.found, multi.prefixes)
    /\ \E elapsed \in Readings(multi.clock) :
         multi' = [multi EXCEPT
                     !.clock = elapsed,
                     !.out = Append(@, Line("all_found", <<>>, <<>>, multi.tries,
                                            elapsed, 0)),
                     !.pc = "done"]
    /\ UNCHANGED single

(***************************************************************************)
(* generate_vanity                                                         *)
(***************************************************************************)
\* variant: only the address equal to the target matches
MatchCondition_equal(a, target) == a = target

\* if addr.startswith(target)
MatchCondition(a, target) == startswith(a, target)

\* "rate_addr_per_sec": int(tries / elapsed) raises ZeroDivisionError at elapsed 0
ResultRaises(elapsed) == elapsed = 0

\* lines 38-43: while True, one key is generated
Generate1 ==
    /\ single.pc = "while"
    /\ single.tries < MaxTries
    /\ \E rand_hex \in HexPool :
         LET key == from_hex(rand_hex) IN
         single' = [single EXCEPT !.tries = @ + 1, !.key = key,
                                  !.addr = address(key),
                                  !.generated = Append(@, address(key)),
                                  !.pc = "if"]
    /\ UNCHANGED multi

\* line 45: the branch on the candidate
Check1 ==
    /\ single.pc = "if"
    /\ single' = [single EXCEPT
                    !.pc = IF MatchCondition(single.addr, single.target)
                           THEN "matched" ELSE "status"]
    /\ UNCHANGED multi

\* lines 46-55: the result record is built and printed, then return
Result1 ==
    /\ single.pc = "matched"
    /\ \E elapsed \in Readings(single.clock) :
         single' =
           IF ResultRaises(elapsed)
           THEN [single EXCEPT !.clock = elapsed, !.pc = "raised"]
           ELSE [single EXCEPT
                   !.clock = elapsed,
                   !.out = Append(@, Line("result", single.prefix, single.addr,
                                          single.tries, elapsed,
                                          single.tries \div elapsed)),
                   !.pc = "done"]
    /\ UNCHANGED multi

\* lines 58-61: the status check that ends a non-matching attempt
Status1 ==
    /\ single.pc = "status"
    /\ single.status_interval # 0
    /\ \/ /\ ~StatusDue(single.tries, single.status_interval)
          /\ single' = [single EXCEPT !.pc = "while"]
       \/ /\ StatusDue(single.tries, single.status_interval)
          /\ \E elapsed \in Readings(single.clock) :
               single' = StatusPrinted(single, elapsed)
    /\ UNCHANGED multi

\* lines 58-61 when the reader of the status line wants the run cancelled
Status1Answered ==
    /\ single.pc = "status"
    /\ StatusDue(single.tries, single.status_interval)
    /\ \E elapsed \in Readings(single.clock) :
         single' = [StatusPrinted(single, elapsed) EXCEPT
                      !.cancel = IF @ = 0 THEN single.tries ELSE @]
    /\ UNCHANGED multi

Next ==
    \/ Generate
    \/ SkipPrefix
    \/ ClaimPrefix
    \/ Status
    \/ Finish
    \/ Generate1
    \/ Check1
    \/ Result1
    \/ Status1

Spec == Init /\ [][Next]_vars

\* the same runs, with readers of the status lines that may ask for cancellation
NextCancel ==
    \/ Next
    \/ StatusAnswered
    \/ Status1Answered

SpecCancel == Init /\ [][NextCancel]_vars


(***************************************************************************)
(* Interval 0: tries % status_interval raises ZeroDivisionError            *)
(***************************************************************************)
\* line 102 of generate_vanity_list with status_interval = 0
StatusRaises ==
    /\ multi.pc = "for"
    /\ multi.i > Len(multi.prefixes)
    /\ multi.status_interval = 0
    /\ multi' = [multi EXCEPT !.pc = "raised"]
    /\ UNCHANGED single

\* line 58 of generate_vanity with status_interval = 0
Status1Raises ==
    /\ single.pc = "status"
    /\ single.status_interval = 0
    /\ single' = [single EXCEPT !.pc = "raised"]
    /\ UNCHANGED multi

(***************************************************************************)
(* The command lines: the __main__ blocks of the two scripts.  sys.argv is *)
(* a sequence of strings, sys.argv[0] being argv[1] here.                  *)
(***************************************************************************)
Letters == { "A", "a", "B", "b", "x", "z" }

Digits == { "0", "1", "2", "3", "4", "5", "6", "7", "8", "9" }

DigitValue(c) ==
    CASE c = "0" -> 0 [] c = "1" -> 1 [] c = "2" -> 2 [] c = "3" -> 3
      [] c = "4" -> 4 [] c = "5" -> 5 [] c = "6" -> 6 [] c = "7" -> 7
      [] c = "8" -> 8 [] OTHER -> 9

\* str.strip(): leading and trailing whitespace removed
RECURSIVE lstrip(_, _)
lstrip(s, chars) ==
    IF s # <<>> /\ Head(s) \in chars THEN lstrip(Tail(s), chars) ELSE s

RECURSIVE rstrip(_, _)
rstrip(s, chars) ==
    IF s # <<>> /\ s[Len(s)] \in chars
    THEN rstrip(SubSeq(s, 1, Len(s) - 1), chars) ELSE s

\* str.strip() and str.strip(chars)
strip_chars(s, chars) == rstrip(lstrip(s, chars), chars)

strip(s) == strip_chars(s, {" "})

\* variant: any non-empty string counts as alphanumeric
isalnum_nonempty(s) == s # <<>>

\* str.isalnum(): non-empty, letters and digits only
isalnum(s) == s # <<>> /\ \A j \in 1..Len(s) : s[j] \in Letters \cup Digits

\* re.split(r'[;,]+', raw): the pieces between runs of separators, the empty
\* pieces at either end included
RECURSIVE re_split(_)
re_split(s) ==
    LET seps == { j \in 1..Len(s) : s[j] \in {";", ","} } IN
    IF seps = {} THEN << s >>
    ELSE LET k == CHOOSE j \in seps : \A m \in seps : j <= m
             rest == lstrip(SubSeq(s, k, Len(s)), {";", ","})
         IN  << SubSeq(s, 1, k - 1) >> \o re_split(rest)

\* [p.strip() for p in ... if p.strip()]
RECURSIVE stripped_pieces(_)
stripped_pieces(ps) ==
    IF ps = <<>> THEN <<>>
    ELSE IF strip(Head(ps)) # <<>>
         THEN << strip(Head(ps)) >> \o stripped_pieces(Tail(ps))
         ELSE stripped_pieces(Tail(ps))

\* int(s) raises ValueError unless s is, within whitespace, an optional sign
\* and one or more digits
IntBody(s) ==
    LET t == strip(s) IN
    IF t # <<>> /\ Head(t) \in {"+", "-"} THEN Tail(t) ELSE t

int_raises(s) ==
    \/ IntBody(s) = <<>>
    \/ \E j \in 1..Len(IntBody(s)) : IntBody(s)[j] \notin Digits

RECURSIVE DigitsValue(_)
DigitsValue(ds) ==
    IF ds = <<>> THEN 0
    ELSE 10 * DigitsValue(SubSeq(ds, 1, Len(ds) - 1)) + DigitValue(ds[Len(ds)])

int(s) ==
    LET t == strip(s) IN
    IF t # <<>> /\ Head(t) = "-" THEN -DigitsValue(IntBody(s))
    ELSE DigitsValue(IntBody(s))

\* the default of the optional status_interval argument
DefaultInterval == 100000

\* print(<message>); sys.exit(1)
Exit1(r, message) ==
    [r EXCEPT !.out = Append(@, Line(message, <<>>, <<>>, 0, 0, 0)),
              !.pc = "exit1"]

\* lines 121-142 of create_privatekey_from_prefixes.py
Main ==
    /\ multi.pc = "main"
    /\ LET argv == multi.argv IN
       multi' =
         IF Len(argv) < 2 \/ Len(argv) > 3 THEN Exit1(multi, "usage")
         ELSE
           LET raw == strip_chars(strip_chars(strip(argv[2]), {"\""}), {"'"})
               prefixes == stripped_pieces(re_split(raw))
           IN  IF prefixes = <<>> THEN Exit1(multi, "error")
               ELSE IF \E j \in 1..Len(prefixes) : ~isalnum(prefixes[j])
                    THEN Exit1(multi, "error")
               ELSE IF Len(argv) = 3 /\ int_raises(argv[3])
                    THEN Exit1(multi, "error")
               ELSE [MultiStart(prefixes,
                                IF Len(argv) = 3 THEN int(argv[3])
                                ELSE DefaultInterval)
                       EXCEPT !.argv = argv]
    /\ UNCHANGED single

\* lines 64-81 of create_privatekey_from_prefix.py
Main1 ==
    /\ single.pc = "main"
    /\ LET argv == single.argv IN
       single' =
         IF Len(argv) < 2 \/ Len(argv) > 3 THEN Exit1(single, "usage")
         ELSE
           LET prefix_arg == strip(argv[2]) IN
           IF ~isalnum(prefix_arg) THEN Exit1(single, "error")
           ELSE IF Len(argv) = 3 /\ int_raises(argv[3])
                THEN Exit1(single, "error")
           ELSE [SingleStart(prefix_arg,
                             IF Len(argv) = 3 THEN int(argv[3])
                             ELSE DefaultInterval)
                   EXCEPT !.argv = argv]
    /\ UNCHANGED multi

\* the command lines tried: prefix arguments and interval arguments
PrefixArgs ==
    { <<"A">>, <<" ", "A", "B", " ">>, <<"A", ",", "a">>,
      <<"A", ";", ";", " ", "A", "B">>, <<"\"", "a", ",", "a", "\"">>,
      <<>>, <<",", ";">>, <<"A", "-">> }

IntervalArgs ==
    { <<"2">>, <<" ", "1", " ">>, <<"0">>, <<"-", "1">>, <<"x">>,
      <<"1", ".", "5">>, <<>> }

ArgvPool ==
    { << <<"script">> >> }
      \cup { << <<"script">>, a >> : a \in PrefixArgs }
      \cup { << <<"script">>, a, n >> : a \in PrefixArgs, n \in IntervalArgs }
      \cup { << <<"script">>, <<"A">>, <<"2">>, <<"z">> >> }

InitCli ==
    \/ /\ multi \in { [MultiIdle EXCEPT !.pc = "main", !.argv = argv] :
                        argv \in ArgvPool }
       /\ single = SingleIdle
    \/ /\ multi = MultiIdle
       /\ single \in { [SingleIdle EXCEPT !.pc = "main", !.argv = argv] :
                         argv \in ArgvPool }

NextCli ==
    \/ Main
    \/ Main1
    \/ StatusRaises
    \/ Status1Raises
    \/ Next

SpecCli == InitCli /\ [][NextCli]_vars

(***************************************************************************)
(* The loop body of generate_vanity_list run by NWorkers workers, as the   *)
(* concurrency model of the design has it: found, tries, the output and    *)
(* the files are shared, key, addr and the for index are each worker's     *)
(* own.  A step is one statement group of the source; the test of line 95  *)
(* and the assignment of line 97 are separate statements.                  *)
(***************************************************************************)
Worker(w) == multi.workers[w]

\* lines 88-92 in worker w
WGenerate(w) ==
    /\ multi.pc = "workers"
    /\ Worker(w).pc = "while"
    /\ LoopCondition(multi.found, multi.prefixes)
    /\ multi.tries < MaxTries
    /\ \E rand_hex \in HexPool :
         LET key == from_hex(rand_hex) IN
         multi' = [multi EXCEPT
                     !.tries = @ + 1,
                     !.generated = Append(@, address(key)),
                     !.workers[w] = [pc |-> "for", key |-> key,
                                     addr |-> address(key), i |-> 1]]
    /\ UNCHANGED single

\* lines 94-95 in worker w: the condition is false
WSkip(w) ==
    /\ multi.pc = "workers"
    /\ Worker(w).pc = "for"
    /\ Worker(w).i <= Len(multi.prefixes)
    /\ ~ClaimCondition(multi.prefixes[Worker(w).i], multi.targets[Worker(w).i],
                       multi.found, Worker(w).addr)
    /\ multi' = [multi EXCEPT !.workers[w].i = @ + 1]
    /\ UNCHANGED single

\* line 95 in worker w: the condition is true, the body is entered
WTest(w) ==
    /\ multi.pc = "workers"
    /\ Worker(w).pc = "for"
    /\ Worker(w).i <= Len(multi.prefixes)
    /\ ClaimCondition(multi.prefixes[Worker(w).i], multi.targets[Worker(w).i],
                      multi.found, Worker(w).addr)
    /\ multi' = [multi EXCEPT !.workers[w].pc = "body"]
    /\ UNCHANGED single

\* lines 96-100 in worker w
WClaim(w) ==
    /\ multi.pc = "workers"
    /\ Worker(w).pc = "body"
    /\ \E elapsed \in Readings(multi.clock), written \in BOOLEAN :
         LET prefix == multi.prefixes[Worker(w).i]
             claimed == [multi EXCEPT
                           !.clock = elapsed,
                           !.found = DictSet(@, prefix),
                           !.out = Append(@, Line("match", prefix, Worker(w).addr,
                                                  multi.tries, elapsed, 0))]
         IN  multi' =
               IF written
               THEN [claimed EXCEPT
                       !.files = WriteFile(@, WalletFile(Worker(w).addr,
                                                         to_wif(Worker(w).key))),
                       !.out = Append(@, Line("saved", <<>>, Worker(w).addr,
                                              multi.tries, elapsed, 0)),
                       !.workers[w].i = @ + 1,
                       !.workers[w].pc = "for"]
               ELSE [claimed EXCEPT !.workers[w].pc = "raised"]
    /\ UNCHANGED single

\* lines 102-106 in worker w
WStatus(w) ==
    /\ multi.pc = "workers"
    /\ Worker(w).pc = "for"
    /\ Worker(w).i > Len(multi.prefixes)
    /\ \/ /\ ~StatusDue(multi.tries, multi.status_interval)
          /\ multi' = [multi EXCEPT !.workers[w].pc = "while"]
       \/ /\ StatusDue(multi.tries, multi.status_interval)
          /\ \E elapsed \in Readings(multi.clock) :
               multi' = [StatusPrinted(multi, elapsed) EXCEPT
                           !.pc = "workers", !.workers[w].pc = "while"]
    /\ UNCHANGED single

\* line 88 in worker w: the loop test fails, the worker is through
WExit(w) ==
    /\ multi.pc = "workers"
    /\ Worker(w).pc = "while"
    /\ ~LoopCondition(multi.found, multi.prefixes)
    /\ multi' = [multi EXCEPT !.workers[w].pc = "done"]
    /\ UNCHANGED single

\* lines 108-109 once every worker is through
WorkersFinish ==
    /\ multi.pc = "workers"
    /\ \A w \in 1..NWorkers : Worker(w).pc = "done"
    /\ \E elapsed \in Readings(multi.clock) :
         multi' = [multi EXCEPT
                     !.clock = elapsed,
                     !.out = Append(@, Line("all_found", <<>>, <<>>, multi.tries,
                                            elapsed, 0)),
                     !.pc = "done"]
    /\ UNCHANGED single

InitWorkers ==
    /\ multi \in { [MultiStart(ps, interval) EXCEPT
                      !.pc = "workers",
                      !.workers = [w \in 1..NWorkers |->
                                     [WorkerIdle EXCEPT !.pc = "while"]]] :
                   ps \in PrefixLists, interval \in Intervals }
    /\ single = SingleIdle

NextWorkers ==
    \/ \E w \in 1..NWorkers : WGenerate(w)
    \/ \E w \in 1..NWorkers : WSkip(w)
    \/ \E w \in 1..NWorkers : WTest(w)
    \/ \E w \in 1..NWorkers : WClaim(w)
    \/ \E w \in 1..NWorkers : WStatus(w)
    \/ \E w \in 1..NWorkers : WExit(w)
    \/ WorkersFinish

SpecWorkers == InitWorkers /\ [][NextWorkers]_vars

(***************************************************************************)
(* The two search functions side by side: generate_vanity(p) and           *)
(* generate_vanity_list([p]) with one interval, drawing the same           *)
(* candidates: attempt n of either yields the key attempt n of the other   *)
(* yielded.  Clock readings and the file write stay each run's own.        *)
(***************************************************************************)
\* the candidate of attempt n, once either run has generated it
SameStream ==
    \A n \in 1..Len(multi.generated) :
       n <= Len(single.generated) => multi.generated[n] = single.generated[n]

GeneratePaired == Generate /\ SameStream'

Generate1Paired == Generate1 /\ SameStream'

InitPair ==
    \E p \in PrefixPool, interval \in Intervals :
       /\ multi = MultiStart(<< p >>, interval)
       /\ single = SingleStart(p, interval)

NextPair ==
    \/ GeneratePaired
    \/ SkipPrefix
    \/ ClaimPrefix
    \/ Status
    \/ Finish
    \/ Generate1Paired
    \/ Check1
    \/ Result1
    \/ Status1

SpecPair == InitPair /\ [][NextPair]_vars

(***************************************************************************)
(* Vocabulary of the properties.  Nothing below is used by the actions.    *)
(***************************************************************************)
\* a = '1' + p + suffix for some (possibly empty) suffix
Matches(a, p) ==
    \E n \in 0..Len(a) : a = (<<"1">> \o p) \o SubSeq(a, Len(a) - n + 1, Len(a))

LinesOf(r, kind) == { j \in 1..Len(r.out) : r.out[j].kind = kind }

MatchLines(r, p) == { j \in LinesOf(r, "match") : r.out[j].prefix = p }

Supplied(r) == { r.prefixes[j] : j \in 1..Len(r.prefixes) }

Claimed(r) == { p \in Supplied(r) : MatchLines(r, p) # {} }

AllClaimed(r) == Claimed(r) = Supplied(r)

\* the attempt of the latest match line, 0 when there is none
LastClaimAttempt(r) ==
    IF LinesOf(r, "match") = {} THEN 0
    ELSE CHOOSE t \in 0..MaxTries :
           /\ \E j \in LinesOf(r, "match") : r.out[j].tries = t
           /\ \A j \in LinesOf(r, "match") : r.out[j].tries <= t

PairwiseDistinct(ps) ==
    \A j, k \in 1..Len(ps) : j # k => ps[j] # ps[k]

\* the for loop of the current attempt of generate_vanity_list has run to its end
ForLoopEnded(r) ==
    /\ r.tries > 0
    /\ \/ r.pc \in {"while", "done"}
       \/ r.pc = "for" /\ r.i > Len(r.prefixes)

\* C1: a supplied prefix gets at most one match line (and one save) in a run of
\* generate_vanity_list, whatever the later candidates are.
C1_ClaimOnce ==
    /\ \A p \in PrefixPool : Cardinality(MatchLines(multi, p)) <= 1
    /\ Cardinality(LinesOf(multi, "saved")) <= Cardinality(Supplied(multi))

\* a claimed prefix met a second matching candidate, whose for loop has ended
C1_Witness ==
    /\ ForLoopEnded(multi)
    /\ \E p \in Claimed(multi) :
         /\ Matches(multi.addr, p)
         /\ \E j \in MatchLines(multi, p) : multi.out[j].tries < multi.tries

\* C2: for pairwise distinct prefixes generate_vanity_list ends its loop only
\* with every prefix claimed, in the attempt of the last claim, and generates no
\* key once every prefix is claimed.  (Leaving by an exception is pc = "raised".)
C2_StopsAtLastClaim ==
    PairwiseDistinct(multi.prefixes) =>
        /\ multi.pc = "done" => AllClaimed(multi)
        /\ multi.pc = "done" => multi.tries = LastClaimAttempt(multi)
        /\ AllClaimed(multi) => Len(multi.generated) = LastClaimAttempt(multi)
        /\ multi.pc = "for" => \/ ~AllClaimed(multi)
                               \/ multi.tries = LastClaimAttempt(multi)

\* two distinct prefixes claimed in different attempts, and the run is over
C2_Witness ==
    /\ multi.pc = "done"
    /\ Len(multi.prefixes) = 2
    /\ PairwiseDistinct(multi.prefixes)
    /\ \E j \in LinesOf(multi, "match") : multi.out[j].tries < multi.tries

\* C3: (the claim as stated) with a prefix supplied twice the run still ends as
\* soon as every distinct prefix is claimed: no key is generated after that.
C3_DuplicatesOneRequirement ==
    (Supplied(multi) # {} /\ AllClaimed(multi)) =>
        Len(multi.generated) = LastClaimAttempt(multi)

\* C4: every match report (a match line of generate_vanity_list, the result of
\* generate_vanity) carries the first candidate of the stream that starts with
\* '1' + p and that candidate's index; the counter is the number of keys generated.
FirstMatch(r, line, p) ==
    /\ line.tries \in 1..Len(r.generated)
    /\ line.addr = r.generated[line.tries]
    /\ Matches(r.generated[line.tries], p)
    /\ \A k \in 1..(line.tries - 1) : ~Matches(r.generated[k], p)

C4_FirstMatchAndCount ==
    /\ multi.tries = Len(multi.generated)
    /\ single.tries = Len(single.generated)
    /\ \A j \in LinesOf(multi, "match") :
         FirstMatch(multi, multi.out[j], multi.out[j].prefix)
    /\ \A j \in LinesOf(single, "result") :
         /\ single.out[j].prefix = single.prefix
         /\ FirstMatch(single, single.out[j], single.prefix)

\* prefixes ["A"], candidates "1BA", "1BA", "1A": one match, at attempt 3
C4_Witness ==
    /\ multi.prefixes = << <<"A">> >>
    /\ multi.generated = << <<"1", "B", "A">>, <<"1", "B", "A">>, <<"1", "A">> >>
    /\ Cardinality(LinesOf(multi, "match")) = 1
    /\ \E j \in LinesOf(multi, "match") :
         multi.out[j].tries = 3 /\ multi.out[j].addr = <<"1", "A">>

\* attempt n has passed the status check that ends it
StatusPassed(r, n) ==
    \/ n < r.tries
    \/ n = r.tries /\ r.pc \in {"while", "done"}

StatusAt(r, n) == \E j \in LinesOf(r, "status") : r.out[j].tries = n

\* every supplied prefix has been claimed by attempt n
FinishedAfter(r, n) ==
    \A p \in Supplied(r) : \E j \in MatchLines(r, p) : r.out[j].tries <= n

OneStatusPerAttempt(r) ==
    \A j, k \in LinesOf(r, "status") : r.out[j].tries = r.out[k].tries => j = k

\* C5 (as stated): after attempt n a status line is printed iff n is a multiple
\* of the interval and the run is not finished after attempt n.
C5_ProgressOnlyWhileUnfinished ==
    /\ \A n \in 1..multi.tries :
         StatusPassed(multi, n) =>
           (StatusAt(multi, n) <=>
              (n % multi.status_interval = 0 /\ ~FinishedAfter(multi, n)))
    /\ \A n \in 1..single.tries :
         (n < single.tries \/ single.pc \in {"while", "done"}) =>
           (StatusAt(single, n) <=>
              (n % single.status_interval = 0
                 /\ ~Matches(single.generated[n], single.prefix)))

\* C5 (amended): generate_vanity_list prints one status line after every attempt
\* that reaches the status check and is a multiple of the interval, the attempt
\* of the last claim included; generate_vanity prints it after every multiple
\* whose candidate did not match.
C5_ProgressCadence ==
    /\ OneStatusPerAttempt(multi)
    /\ OneStatusPerAttempt(single)
    /\ \A n \in 1..multi.tries :
         StatusAt(multi, n) <=>
           (StatusPassed(multi, n) /\ n % multi.status_interval = 0)
    /\ \A n \in 1..single.tries :
         StatusAt(single, n) <=>
           /\ n < single.tries \/ single.pc = "while"
           /\ n % single.status_interval = 0
           /\ ~Matches(single.generated[n], single.prefix)
    /\ \A j \in LinesOf(multi, "status") : multi.out[j].tries \in 1..multi.tries
    /\ \A j \in LinesOf(single, "status") : single.out[j].tries \in 1..single.tries

\* interval 2: the last prefix is claimed in attempt 2 and the status line of
\* attempt 2 is printed all the same
C5_Witness ==
    /\ multi.pc = "done"
    /\ multi.status_interval = 2
    /\ multi.tries = 2
    /\ LastClaimAttempt(multi) = 2
    /\ StatusAt(multi, 2)
    /\ ~StatusAt(multi, 1)

\* C6: when the for loop of an attempt has ended, every prefix that was still
\* outstanding and is matched by the candidate has its own match line with this
\* candidate and this attempt count; ["AB", "A"] with first candidate "1AB" has
\* both claimed at attempt 1, and the run generates no second key.
C6_OverlappingPrefixes ==
    /\ ForLoopEnded(multi) =>
         \A p \in Supplied(multi) :
           (/\ Matches(multi.addr, p)
            /\ \A j \in MatchLines(multi, p) : multi.out[j].tries >= multi.tries)
           => \E j \in MatchLines(multi, p) :
                /\ multi.out[j].tries = multi.tries
                /\ multi.out[j].addr = multi.addr
    /\ (/\ multi.prefixes = << <<"A", "B">>, <<"A">> >>
        /\ multi.generated # <<>>
        /\ multi.generated[1] = <<"1", "A", "B">>
        /\ ForLoopEnded(multi))
       => /\ Claimed(multi) = { <<"A", "B">>, <<"A">> }
          /\ multi.tries = 1
          /\ Len(multi.generated) = 1

C6_Witness ==
    /\ multi.pc = "done"
    /\ multi.prefixes = << <<"A", "B">>, <<"A">> >>
    /\ multi.generated = << <<"1", "A", "B">> >>
    /\ \E j \in MatchLines(multi, <<"A">>) : multi.out[j].tries = 1
    /\ \E j \in MatchLines(multi, <<"A", "B">>) : multi.out[j].tries = 1

\* pass k of the for loop of the current attempt is over
PassOver(r, k) ==
    /\ r.tries > 0
    /\ \/ r.pc \in {"while", "done"}
       \/ r.pc \in {"for", "raised"} /\ k < r.i

\* C7: an outstanding prefix p is reported as matched by the candidate a iff
\* a = '1' + p + suffix, letter case included; no other candidate claims p.
\* In generate_vanity the match branch is taken iff the candidate has that form.
C7_MatchingRule ==
    /\ \A j \in LinesOf(multi, "match") :
         Matches(multi.out[j].addr, multi.out[j].prefix)
    /\ \A k \in 1..Len(multi.prefixes) :
         LET p == multi.prefixes[k] IN
         (/\ PassOver(multi, k)
          /\ \A j \in MatchLines(multi, p) : multi.out[j].tries >= multi.tries)
         => (Matches(multi.addr, p) <=>
               \E j \in MatchLines(multi, p) :
                 /\ multi.out[j].tries = multi.tries
                 /\ multi.out[j].addr = multi.addr)
    /\ single.pc = "matched" => Matches(single.addr, single.prefix)
    /\ single.pc = "status" => ~Matches(single.addr, single.prefix)
    /\ \A j \in LinesOf(single, "result") :
         Matches(single.out[j].addr, single.prefix)

\* the candidate "1A" claims "A" and leaves "a" outstanding
C7_Witness ==
    /\ ForLoopEnded(multi)
    /\ multi.addr = <<"1", "A">>
    /\ Supplied(multi) = { <<"A">>, <<"a">> }
    /\ Claimed(multi) = { <<"A">> }

\* C8: generate_vanity_list([]) generates no key, keeps tries at 0 and prints
\* neither a match nor a status line before it ends.
C8_EmptyList ==
    (multi.pc # "idle" /\ multi.prefixes = <<>>) =>
        /\ multi.pc \in {"while", "done"}
        /\ multi.tries = 0
        /\ multi.generated = <<>>
        /\ LinesOf(multi, "match") = {}
        /\ LinesOf(multi, "status") = {}
        /\ LinesOf(multi, "saved") = {}
        /\ multi.files = {}

C8_Witness ==
    /\ multi.pc = "done"
    /\ multi.prefixes = <<>>
    /\ multi.tries = 0
    /\ LinesOf(multi, "all_found") # {}

\* a match line that no "saved" line follows: save_to_file did not write
WriteFailed(r) ==
    \E j \in LinesOf(r, "match") :
        j = Len(r.out) \/ r.out[j + 1].kind # "saved"

\* C9 (as stated): a failed write leaves the prefix claimed and reported and the
\* search goes on for the prefixes still outstanding.
C9_PersistenceFailureIsLocal ==
    WriteFailed(multi) =>
        /\ \A j \in LinesOf(multi, "match") :
             multi.out[j].prefix \in DOMAIN multi.found
        /\ multi.pc \in {"for", "while", "done"}

\* C10 (as stated): once the receiver of a status line has answered with a
\* cancellation, no further key is generated.
C10_CancelStopsRun ==
    /\ multi.cancel # 0 => Len(multi.generated) = multi.cancel
    /\ single.cancel # 0 => Len(single.generated) = single.cancel

\* C11 (as stated, in the form a finite run refutes): with a key provider that
\* keeps producing a match for every supplied prefix the run ends with the
\* completion message; so a run that is back at its loop test with every
\* supplied prefix claimed must be able to print that message.
C11_FairRunCompletes ==
    (multi.pc = "while" /\ AllClaimed(multi)) => ENABLED Finish

\* C12: every status line carries rate = floor(tries / elapsed) when elapsed > 0
\* and rate 0 when elapsed is 0; the status check never ends a run.
RateOf(line) ==
    IF line.elapsed > 0
    THEN /\ line.rate * line.elapsed <= line.tries
         /\ line.tries < (line.rate + 1) * line.elapsed
    ELSE line.rate = 0

C12_ReportedThroughput ==
    /\ \A j \in LinesOf(multi, "status") : RateOf(multi.out[j])
    /\ \A j \in LinesOf(single, "status") : RateOf(single.out[j])
    /\ \A j \in LinesOf(multi, "status") :
         multi.out[j].tries < multi.tries \/ multi.pc \in {"while", "done"}
    /\ \A j \in LinesOf(single, "status") :
         single.out[j].tries < single.tries \/ single.pc = "while"

\* a status line at elapsed 0 (rate 0) and one whose rate is truncated (3 / 2)
C12_Witness ==
    /\ \E j \in LinesOf(multi, "status") :
         multi.out[j].elapsed = 0 /\ multi.out[j].rate = 0
    /\ \E j \in LinesOf(multi, "status") :
         /\ multi.out[j].tries = 3
         /\ multi.out[j].elapsed = 2
         /\ multi.out[j].rate = 1

\* the file of an address, with the WIF of the key the address derives from
RecordOf(r, a) ==
    { f \in r.files :
        /\ f.filename = <<"walletbsv-">> \o a
        /\ f.new_address = a
        /\ \E h \in HexPool :
             address(from_hex(h)) = a /\ f.key_wif = to_wif(from_hex(h)) }

ClaimingAddresses(r) == { r.out[j].addr : j \in LinesOf(r, "match") }

\* C15 (as stated): after a normal run the sink holds one record per matched
\* prefix, in walletbsv-<address>.json, with the address and WIF of the candidate
\* that claimed the prefix.
C15_OneRecordPerPrefix ==
    multi.pc = "done" =>
        /\ Cardinality(multi.files) = Cardinality(Claimed(multi))
        /\ \A j \in LinesOf(multi, "match") :
             RecordOf(multi, multi.out[j].addr) # {}

\* C15 (amended): after a normal run save_to_file has been called once per
\* matched prefix and the sink holds, for every matched prefix, the file
\* walletbsv-<address>.json of the candidate that claimed it, with that
\* candidate's address and WIF; it holds one file per claiming address, so
\* prefixes claimed by the same address share one file.
C15_PersistedRecords ==
    multi.pc = "done" =>
        /\ Cardinality(LinesOf(multi, "saved")) = Cardinality(LinesOf(multi, "match"))
        /\ \A j \in LinesOf(multi, "match") :
             RecordOf(multi, multi.out[j].addr) # {}
        /\ \A f \in multi.files :
             /\ f.new_address \in ClaimingAddresses(multi)
             /\ f \in RecordOf(multi, f.new_address)
        /\ Cardinality(multi.files) = Cardinality(ClaimingAddresses(multi))

\* "1AB" claimed "AB" and "A": two saves, one file
C15_Witness ==
    /\ multi.pc = "done"
    /\ multi.prefixes = << <<"A", "B">>, <<"A">> >>
    /\ multi.generated = << <<"1", "A", "B">> >>
    /\ Cardinality(LinesOf(multi, "saved")) = 2
    /\ Cardinality(multi.files) = 1

OrderedLines(r) ==
    /\ \A j, k \in 1..Len(r.out) : j < k => r.out[j].tries <= r.out[k].tries
    /\ \A j \in LinesOf(r, "match") : \A k \in LinesOf(r, "status") :
         r.out[j].tries = r.out[k].tries => j < k
    /\ \A j \in LinesOf(r, "match") :
         /\ r.out[j].tries \in 1..Len(r.generated)
         /\ r.out[j].addr = r.generated[r.out[j].tries]

\* C16: the match lines of attempt n come before the status line of attempt n
\* and before the key of attempt n + 1 (every line carries the number of keys
\* generated when it is printed); attempt counts along the output never
\* decrease; tries grows by exactly 1 with every generated key.
C16_EventOrdering ==
    [][/\ OrderedLines(multi')
       /\ Len(multi'.out) >= Len(multi.out)
       /\ \A j \in 1..Len(multi.out) : multi'.out[j] = multi.out[j]
       /\ \A j \in (Len(multi.out) + 1)..Len(multi'.out) :
            multi'.out[j].tries = Len(multi'.generated)
       /\ multi'.tries - multi.tries = Len(multi'.generated) - Len(multi.generated)
       /\ multi'.tries - multi.tries \in {0, 1}
       /\ multi'.tries = Len(multi'.generated)]_vars

\* a match line and the status line of the same attempt, and a later attempt
C16_Witness ==
    \E j \in LinesOf(multi, "match") : \E k \in LinesOf(multi, "status") :
        /\ multi.out[j].tries = multi.out[k].tries
        /\ j < k
        /\ multi.out[k].tries < multi.tries

\* the supplied prefixes some candidate generated so far starts with
MatchedSoFar(r) ==
    { p \in Supplied(r) : \E k \in 1..Len(r.generated) : Matches(r.generated[k], p) }

\* C17: found only grows, a step adds nothing but an outstanding prefix matched
\* by the current candidate, found stays within the supplied prefixes, and when
\* the for loop of an attempt has ended found holds exactly the prefixes matched
\* so far.
C17_OnlyClaimingMutates ==
    [][/\ DOMAIN multi.found \subseteq DOMAIN multi'.found
       /\ DOMAIN multi'.found \subseteq Supplied(multi')
       /\ \A p \in (DOMAIN multi'.found) \ (DOMAIN multi.found) :
            /\ Matches(multi'.addr, p)
            /\ multi'.tries = multi.tries
            /\ Cardinality((DOMAIN multi'.found) \ (DOMAIN multi.found)) = 1
       /\ ForLoopEnded(multi') => DOMAIN multi'.found = MatchedSoFar(multi')
       /\ DOMAIN multi'.found \subseteq MatchedSoFar(multi')]_vars

\* a candidate that matches nothing outstanding left a non-empty found as it was
C17_Witness ==
    /\ ForLoopEnded(multi)
    /\ multi.tries = 2
    /\ DOMAIN multi.found # {}
    /\ DOMAIN multi.found # Supplied(multi)
    /\ \A j \in LinesOf(multi, "match") : multi.out[j].tries = 1

\* C18 (as stated): no rate computation divides by a zero elapsed time, the
\* rate_addr_per_sec of the match record of generate_vanity included.
C18_RateWellDefined == single.pc # "raised"

(***************************************************************************)
(* C13, C19: the command lines                                             *)
(***************************************************************************)
Alnum == Letters \cup Digits

\* the process has left its __main__ block
Decided(r) == r.pc \notin {"idle", "main"}

\* the search function has been entered
Invoked(r) == r.pc \notin {"idle", "main", "exit1"}

WrongCount(argv) == Len(argv) \notin {2, 3}

\* no prefix at all in the argument: nothing but blanks, separators, quotes
NoPrefix(s) == \A j \in 1..Len(s) : s[j] \notin Alnum

\* a character that no prefix may hold and that separates nothing
BadCharacter(s, separators) ==
    \E j \in 1..Len(s) : s[j] \notin Alnum \cup separators

\* not the decimal writing of an integer
NonInteger(s) ==
    \/ \A j \in 1..Len(s) : s[j] \notin Digits
    \/ \E j \in 1..Len(s) : s[j] \notin Digits \cup {"+", "-", " "}

Rejectable(argv, separators) ==
    \/ WrongCount(argv)
    \/ Len(argv) >= 2 /\ NoPrefix(argv[2])
    \/ Len(argv) >= 2 /\ BadCharacter(argv[2], separators)
    \/ Len(argv) = 3 /\ NonInteger(argv[3])

\* exit status 1, the last thing printed being the message, nothing searched
ExitedBeforeCore(r) ==
    /\ r.pc = "exit1"
    /\ r.out # <<>>
    /\ r.out[Len(r.out)].kind \in {"usage", "error"}
    /\ LinesOf(r, "match") \cup LinesOf(r, "status") = {}
    /\ r.tries = 0
    /\ r.generated = <<>>

\* C13: in either program a wrong argument count, an argument holding no
\* prefix, a prefix with a non-alphanumeric character or a non-integer
\* interval ends the process with status 1 after a message, and the search
\* function is never entered.
C13_ValidationPrecedesCore ==
    /\ (Decided(multi) /\ Rejectable(multi.argv, {";", ",", " ", "\"", "'"}))
          => ExitedBeforeCore(multi) /\ multi.found = EmptyDict
    /\ (Decided(single) /\ Rejectable(single.argv, {" "}))
          => ExitedBeforeCore(single)

\* a list with a good and a bad prefix, and a good interval, has been rejected
C13_Witness ==
    /\ multi.pc = "exit1"
    /\ Len(multi.argv) = 3
    /\ ~NoPrefix(multi.argv[2])
    /\ BadCharacter(multi.argv[2], {";", ",", " ", "\"", "'"})
    /\ ~NonInteger(multi.argv[3])

\* C19: whatever interval argument the command line accepts, the interval
\* the search function runs with is positive, and the progress check is never
\* reached with interval 0.
C19_IntervalPositive ==
    /\ Invoked(multi) => multi.status_interval > 0
    /\ Invoked(single) => single.status_interval > 0
    /\ ~ENABLED StatusRaises
    /\ ~ENABLED Status1Raises

StatusAttempts(r) == { r.out[j].tries : j \in LinesOf(r, "status") }

\* the prefix both runs search for
PairPrefix == single.prefix

\* C20 as stated: when both runs have ended, they reported the match at the
\* same attempt with the same address, printed status lines after the same
\* attempts and generated the same number of keys.
C20_SingleMultiAgree ==
    (multi.pc = "done" /\ single.pc = "done") =>
      /\ \A j \in LinesOf(multi, "match"), k \in LinesOf(single, "result") :
            /\ multi.out[j].tries = single.out[k].tries
            /\ multi.out[j].addr = single.out[k].addr
      /\ StatusAttempts(multi) = StatusAttempts(single)
      /\ Len(multi.generated) = Len(single.generated)

\* C20 amended: every match either run reports is the first matching
\* candidate of the common stream, neither run generates a key after it, the
\* status lines of the non-matching attempts agree, and after the matching
\* attempt only the list function prints one, when the attempt is due.
C20_AgreeUpToLastStatus ==
    /\ \A j \in LinesOf(multi, "match") :
          FirstMatch(multi, multi.out[j], PairPrefix)
    /\ \A k \in LinesOf(single, "result") :
          FirstMatch(single, single.out[k], PairPrefix)
    /\ \A j \in LinesOf(multi, "match"), k \in LinesOf(single, "result") :
          /\ multi.out[j].tries = single.out[k].tries
          /\ multi.out[j].addr = single.out[k].addr
    /\ \A n \in 1..(Len(multi.generated) - 1) :
          ~Matches(multi.generated[n], PairPrefix)
    /\ \A n \in 1..(Len(single.generated) - 1) :
          ~Matches(single.generated[n], PairPrefix)
    /\ \A n \in 1..MaxTries :
          (/\ StatusPassed(multi, n)
           /\ n < single.tries \/ (n = single.tries /\ single.pc = "while")
           /\ ~Matches(multi.generated[n], PairPrefix))
            => (n \in StatusAttempts(multi) <=> n \in StatusAttempts(single))
    /\ \A n \in StatusAttempts(single) :
          ~Matches(single.generated[n], PairPrefix)
    /\ \A n \in StatusAttempts(multi) :
          Matches(multi.generated[n], PairPrefix)
            => (multi.pc \in {"while", "done"} /\ n = multi.tries
                /\ StatusDue(n, multi.status_interval))
    /\ (multi.pc = "done" /\ StatusDue(multi.tries, multi.status_interval))
          => multi.tries \in StatusAttempts(multi)

\* both runs have ended on a match that came after a status line, and the
\* list function printed one more after the matching attempt
C20_Witness ==
    /\ multi.pc = "done"
    /\ single.pc = "done"
    /\ StatusAttempts(single) # {}
    /\ StatusAttempts(multi) # StatusAttempts(single)

====
